---- MODULE Spec2Model ----
(***************************************************************************)
(* GenerationalArenaDom (src/src/lib.rs): the TreeSink implementation over *)
(* a generational_indextree arena.                                         *)
(*                                                                         *)
(* A Handle is the index of a node in the arena (handles are never freed,  *)
(* so the index alone identifies the node); 0 stands for Option::None.     *)
(* A panic ends the program: the state it leaves is kept, status becomes   *)
(* "panicked", and no operation follows.                                   *)
(***************************************************************************)
EXTENDS Integers, Sequences, FiniteSets, TLC

VARIABLES arena, document, errors, quirks_mode, status

vars == <<arena, document, errors, quirks_mode, status>>

\* ---------------------------------------------------------------- bounds
MaxNodes == 4
MaxText == 2
MaxInAttrs == 2
MaxAttrNodes == 3

Chars == {"a", "b"}
Texts == {<<c>> : c \in Chars}

AttrNames == {"class", "id"}
AttrValues == {"a", "b"}
Attribute == [name : AttrNames, value : AttrValues]

\* Incoming attribute lists: every sequence of at most MaxInAttrs attributes,
\* lists that repeat a qualified name included.
AttrLists == UNION {[1..n -> Attribute] : n \in 0..MaxInAttrs}

\* The incoming attribute lists of the tree specification: elements are
\* created with the first and offered the second.
TreeCreateAttrs == <<[name |-> "class", value |-> "a"]>>
TreeAddAttrs == <<[name |-> "class", value |-> "b"]>>

None == 0

\* ------------------------------------------------------------ node data
\* enum NodeData, with the links generational_indextree keeps per node.
NodeData(kind, contents, attrs, template_contents) ==
    [kind |-> kind, contents |-> contents, attrs |-> attrs,
     template_contents |-> template_contents,
     parent |-> None, first_child |-> None, last_child |-> None,
     previous_sibling |-> None, next_sibling |-> None]

\* Arena::new_node: the node is appended to the arena, its handle is the new index.
new_node(a, data) == Append(a, data)

\* ------------------------------------------------- generational_indextree
\* relations::connect_neighbors
connect_neighbors(a, parent, previous, next) ==
    LET pfc0 == IF parent # None THEN a[parent].first_child ELSE None
        plc0 == IF parent # None THEN a[parent].last_child ELSE None
        a1 == IF previous # None THEN [a EXCEPT ![previous].next_sibling = next] ELSE a
        pfc == IF previous # None THEN (IF pfc0 # None THEN pfc0 ELSE previous) ELSE next
        a2 == IF next # None THEN [a1 EXCEPT ![next].previous_sibling = previous] ELSE a1
        plc == IF next # None THEN (IF plc0 # None THEN plc0 ELSE next) ELSE previous
    IN  IF parent # None
        THEN [a2 EXCEPT ![parent].first_child = pfc, ![parent].last_child = plc]
        ELSE a2

\* NodeId::detach: unlink the node from its siblings and its parent; its own
\* children stay.
NodeId_detach(a, h) ==
    LET parent == a[h].parent
        prev == a[h].previous_sibling
        next == a[h].next_sibling
        a1 == [a EXCEPT ![h].previous_sibling = None, ![h].next_sibling = None]
        a2 == connect_neighbors(a1, parent, prev, next)
    IN  [a2 EXCEPT ![h].parent = None]

\* relations::insert_with_neighbors: Err (ok = FALSE) when the node would become
\* its own neighbour or its own parent; nothing is changed then.
insert_with_neighbors(a, new, parent, previous, next) ==
    IF previous = new \/ next = new \/ parent = new
    THEN [arena |-> a, ok |-> FALSE]
    ELSE LET a1 == NodeId_detach(a, new)
             a2 == [a1 EXCEPT ![new].parent = parent]
             a3 == connect_neighbors(a2, parent, previous, new)
             a4 == connect_neighbors(a3, parent, new, next)
         IN  [arena |-> a4, ok |-> TRUE]

\* Mutant of NodeId_append: the node is linked as first child.
NodeId_append_prepending(a, self, new_child) ==
    IF new_child = self
    THEN [arena |-> a, ok |-> FALSE]
    ELSE LET a1 == NodeId_detach(a, new_child)
         IN  insert_with_neighbors(a1, new_child, self, None, a1[self].first_child)

\* NodeId::append (checked_append + expect): panics on new_child = self before
\* anything is changed; otherwise detaches new_child and links it as last child.
NodeId_append(a, self, new_child) ==
    IF new_child = self
    THEN [arena |-> a, ok |-> FALSE]
    ELSE LET a1 == NodeId_detach(a, new_child)
         IN  insert_with_neighbors(a1, new_child, self, a1[self].last_child, None)

\* NodeId::insert_before, called as self.insert_before(new_sibling): panics on
\* new_sibling = self before anything is changed; otherwise detaches new_sibling
\* and links it before self, under self's parent (None included). The node
\* that moves is the argument, the receiver stays where it is.
NodeId_insert_before(a, self, new_sibling) ==
    IF new_sibling = self
    THEN [arena |-> a, ok |-> FALSE]
    ELSE LET a1 == NodeId_detach(a, new_sibling)
         IN  insert_with_neighbors(a1, new_sibling, a1[self].parent,
                                   a1[self].previous_sibling, self)

\* ------------------------------------------------------------- helpers
\* fn get_node
get_node(a, target) == a[target]

\* fn preceding_node
preceding_node(a, target) == a[target].previous_sibling

\* Mutant of append_to_existing_text: the text is put in front of the buffer.
append_to_existing_text_prepending(a, prev, text) ==
    IF a[prev].kind = "Text"
    THEN [arena |-> [a EXCEPT ![prev].contents = text \o @], merged |-> TRUE]
    ELSE [arena |-> a, merged |-> FALSE]

\* fn append_to_existing_text: when prev is a Text node the text is pushed onto
\* its buffer and the result is true; otherwise nothing changes and it is false.
append_to_existing_text(a, prev, text) ==
    IF a[prev].kind = "Text"
    THEN [arena |-> [a EXCEPT ![prev].contents = @ \o text], merged |-> TRUE]
    ELSE [arena |-> a, merged |-> FALSE]

\* NodeOrText<Handle>
AppendNode(h) == [node |-> h, text |-> <<>>]
AppendText(t) == [node |-> None, text |-> t]
IsText(child) == child.node = None

\* The handles the sink hands out: get_document, create_element, create_comment,
\* create_pi and get_template_contents.
Handles == {h \in 1..Len(arena) :
              arena[h].kind \in {"Document", "Element", "Comment", "ProcessingInstruction"}}

Children == {AppendNode(h) : h \in Handles} \cup {AppendText(t) : t \in Texts}

\* ------------------------------------------------- TreeSink, as functions
\* Each operation maps an arena to the arena it leaves, ok = FALSE when it
\* panics (the arena is then the one the panic leaves behind), and ret, the
\* handle it returns (None when it returns nothing).
Outcome(a, ok, ret) == [arena |-> a, ok |-> ok, ret |-> ret]

\* Mutant of create_element: the template contents are linked under the element.
create_element_linking(a, attrs, template) ==
    LET a1 == IF template THEN new_node(a, NodeData("Document", <<>>, <<>>, None)) ELSE a
        template_inner == IF template THEN Len(a1) ELSE None
        a2 == new_node(a1, NodeData("Element", <<>>, attrs, template_inner))
        a3 == IF template THEN NodeId_append(a2, Len(a2), template_inner).arena ELSE a2
    IN  Outcome(a3, TRUE, Len(a3))

\* fn create_element: the template contents, when asked for, are allocated
\* before the element.
create_element(a, attrs, template) ==
    LET a1 == IF template THEN new_node(a, NodeData("Document", <<>>, <<>>, None)) ELSE a
        template_inner == IF template THEN Len(a1) ELSE None
        a2 == new_node(a1, NodeData("Element", <<>>, attrs, template_inner))
    IN  Outcome(a2, TRUE, Len(a2))

\* Mutant of create_comment: the new node is appended to the first node of the
\* arena.
create_comment_attached(a) ==
    LET a1 == new_node(a, NodeData("Comment", <<>>, <<>>, None))
    IN  Outcome(NodeId_append(a1, 1, Len(a1)).arena, TRUE, Len(a1))

\* fn create_comment
create_comment(a) ==
    LET a1 == new_node(a, NodeData("Comment", <<>>, <<>>, None))
    IN  Outcome(a1, TRUE, Len(a1))

\* fn create_pi
create_pi(a) ==
    LET a1 == new_node(a, NodeData("ProcessingInstruction", <<>>, <<>>, None))
    IN  Outcome(a1, TRUE, Len(a1))

\* fn append
append(a, parent, child) ==
    LET h == a[parent].last_child
        m == IF IsText(child) /\ h # None
             THEN append_to_existing_text(a, h, child.text)
             ELSE [arena |-> a, merged |-> FALSE]
    IN  IF m.merged
        THEN Outcome(m.arena, TRUE, None)
        ELSE LET a1 == IF IsText(child)
                       THEN new_node(a, NodeData("Text", child.text, <<>>, None))
                       ELSE a
                 new_child == IF IsText(child) THEN Len(a1) ELSE child.node
                 r == NodeId_append(a1, parent, new_child)
             IN  Outcome(r.arena, r.ok, None)

\* fn append_before_sibling: the last line is child.insert_before(*sibling), so
\* it is sibling that is detached and linked before child.
append_before_sibling(a, sibling, child) ==
    LET preceding == preceding_node(a, sibling)
        m == IF IsText(child) /\ preceding # None
             THEN append_to_existing_text(a, preceding, child.text)
             ELSE [arena |-> a, merged |-> FALSE]
    IN  IF m.merged
        THEN Outcome(m.arena, TRUE, None)
        ELSE LET a1 == IF IsText(child)
                       THEN new_node(a, NodeData("Text", child.text, <<>>, None))
                       ELSE a
                 new_child == IF IsText(child) THEN Len(a1) ELSE child.node
                 r == NodeId_insert_before(a1, new_child, sibling)
             IN  Outcome(r.arena, r.ok, None)

\* Mutant of append_based_on_parent_node: the choice looks at the parent of
\* prev_element.
append_based_on_parent_node_of_prev(a, element, prev_element, child) ==
    IF a[prev_element].parent # None
    THEN append_before_sibling(a, element, child)
    ELSE append(a, prev_element, child)

\* fn append_based_on_parent_node
append_based_on_parent_node(a, element, prev_element, child) ==
    IF a[element].parent # None
    THEN append_before_sibling(a, element, child)
    ELSE append(a, prev_element, child)

\* Mutant of append_doctype_to_document: the Doctype node is created and left
\* without a parent.
append_doctype_to_document_unattached(a, doc) ==
    Outcome(new_node(a, NodeData("Doctype", <<>>, <<>>, None)), TRUE, None)

\* Mutant of append_doctype_to_document: the Doctype node is put before the
\* first child of the document.
append_doctype_to_document_prepending(a, doc) ==
    LET a1 == new_node(a, NodeData("Doctype", <<>>, <<>>, None))
        r == IF a[doc].first_child = None
             THEN NodeId_append(a1, doc, Len(a1))
             ELSE NodeId_insert_before(a1, a[doc].first_child, Len(a1))
    IN  Outcome(r.arena, r.ok, None)

\* fn append_doctype_to_document
append_doctype_to_document(a, doc) ==
    LET a1 == new_node(a, NodeData("Doctype", <<>>, <<>>, None))
        r == NodeId_append(a1, doc, Len(a1))
    IN  Outcome(r.arena, r.ok, None)

\* fn get_template_contents
get_template_contents(a, target) ==
    IF get_node(a, target).kind = "Element" /\ get_node(a, target).template_contents # None
    THEN Outcome(a, TRUE, get_node(a, target).template_contents)
    ELSE Outcome(a, FALSE, None)

\* The filter of add_attrs_if_missing: the incoming attributes, in order, whose
\* name is not in existing_names.
RECURSIVE filter_missing(_, _)
filter_missing(attrs, existing_names) ==
    IF attrs = <<>> THEN <<>>
    ELSE (IF Head(attrs).name \in existing_names THEN <<>> ELSE <<Head(attrs)>>)
         \o filter_missing(Tail(attrs), existing_names)

\* Mutant of add_attrs_if_missing: every incoming attribute is appended.
add_attrs_unfiltered(a, target, attrs) ==
    IF get_node(a, target).kind # "Element"
    THEN Outcome(a, FALSE, None)
    ELSE Outcome([a EXCEPT ![target].attrs = @ \o attrs], TRUE, None)

\* fn add_attrs_if_missing: existing_names is collected once, before the extend.
add_attrs_if_missing(a, target, attrs) ==
    IF get_node(a, target).kind # "Element"
    THEN Outcome(a, FALSE, None)
    ELSE LET existing == a[target].attrs
             existing_names == {existing[i].name : i \in DOMAIN existing}
         IN  Outcome([a EXCEPT ![target].attrs = existing \o filter_missing(attrs, existing_names)],
                     TRUE, None)

\* Mutant of remove_from_parent: the detached node is freed.
remove_from_parent_freeing(a, target) ==
    Outcome([NodeId_detach(a, target) EXCEPT ![target].kind = "Free"], TRUE, None)

\* fn remove_from_parent
remove_from_parent(a, target) == Outcome(NodeId_detach(a, target), TRUE, None)

\* Mutant of reparent_step: the loop variable is not advanced.
reparent_step_stuck(a, next_child, new_parent) ==
    LET a1 == NodeId_detach(a, next_child)
        r == NodeId_append(a1, new_parent, next_child)
    IN  [arena |-> r.arena, ok |-> r.ok, next_child |-> next_child]

\* One pass through the body of the while loop of reparent_children: the child
\* is detached and appended to new_parent, and the next child is read from the
\* child after the move.
reparent_step(a, next_child, new_parent) ==
    LET a1 == NodeId_detach(a, next_child)
        r == NodeId_append(a1, new_parent, next_child)
    IN  [arena |-> r.arena, ok |-> r.ok,
         next_child |-> r.arena[next_child].next_sibling]

\* The while loop of reparent_children: it runs while there is a next child and
\* ends early when the append panics.
RECURSIVE reparent_loop(_, _, _)
reparent_loop(a, next_child, new_parent) ==
    IF next_child = None
    THEN Outcome(a, TRUE, None)
    ELSE LET s == reparent_step(a, next_child, new_parent)
         IN  IF ~s.ok
             THEN Outcome(s.arena, FALSE, None)
             ELSE reparent_loop(s.arena, s.next_child, new_parent)

\* fn reparent_children
reparent_children(a, node, new_parent) ==
    reparent_loop(a, a[node].first_child, new_parent)

\* Mutant of parse_error: the message is put in front of the log.
parse_error_prepending(log, msg) == <<msg>> \o log

\* fn parse_error: the message is pushed onto the error log.
parse_error(log, msg) == Append(log, msg)

\* fn set_quirks_mode
set_quirks_mode(mode) == mode

\* fn get_document
get_document(a, doc) == Outcome(a, TRUE, doc)

\* fn same_node
same_node(x, y) == x = y

\* fn elem_name: panics on a node that is not an Element; the name it returns
\* otherwise is read from the node and is not part of the outcome here.
elem_name(a, target) ==
    IF get_node(a, target).kind = "Element"
    THEN Outcome(a, TRUE, None)
    ELSE Outcome(a, FALSE, None)

\* Mutant of is_mathml_annotation_xml_integration_point: a node that is not an
\* Element is answered like an Element.
is_mathml_annotation_xml_integration_point_lenient(a, target) ==
    Outcome(a, TRUE, None)

\* fn is_mathml_annotation_xml_integration_point: panics on a node that is not
\* an Element; the flag it returns otherwise is not part of the outcome here.
is_mathml_annotation_xml_integration_point(a, target) ==
    IF get_node(a, target).kind = "Element"
    THEN Outcome(a, TRUE, None)
    ELSE Outcome(a, FALSE, None)

\* ---------------------------------------------------------------- state
\* impl Default for GenerationalArenaDom
Init ==
    /\ arena = new_node(<<>>, NodeData("Document", <<>>, <<>>, None))
    /\ document = 1
    /\ errors = <<>>
    /\ quirks_mode = "NoQuirks"
    /\ status = "running"

Running == status = "running"

\* An operation leaves the arena of its outcome; a panic ends the program.
Returns(r) ==
    /\ Running
    /\ arena' = r.arena
    /\ status' = IF r.ok THEN "running" ELSE "panicked"
    /\ UNCHANGED <<document, errors, quirks_mode>>

\* ------------------------------------------------- TreeSink, as actions
Call_create_element(attrs, template) == Returns(create_element(arena, attrs, template))

Call_create_comment == Returns(create_comment(arena))

Call_create_pi == Returns(create_pi(arena))

Call_append(parent, child) == Returns(append(arena, parent, child))

Call_append_before_sibling(sibling, child) ==
    Returns(append_before_sibling(arena, sibling, child))

Call_append_based_on_parent_node(element, prev_element, child) ==
    Returns(append_based_on_parent_node(arena, element, prev_element, child))

Call_append_doctype_to_document == Returns(append_doctype_to_document(arena, document))

Call_get_template_contents(target) == Returns(get_template_contents(arena, target))

Call_add_attrs_if_missing(target, attrs) ==
    Returns(add_attrs_if_missing(arena, target, attrs))

Call_remove_from_parent(target) == Returns(remove_from_parent(arena, target))

Call_reparent_children(node, new_parent) ==
    Returns(reparent_children(arena, node, new_parent))

\* ------------------------------------------------------- specifications
\* The text held by the first n nodes of the arena.
RECURSIVE TotalText(_, _)
TotalText(a, n) == IF n = 0 THEN 0 ELSE Len(a[n].contents) + TotalText(a, n - 1)

\* The bounds of the model: the arena holds at most `nodes` nodes and its text
\* buffers at most MaxText characters in all.
Bounded(nodes) ==
    /\ Len(arena) <= nodes
    /\ TotalText(arena, Len(arena)) <= MaxText

\* Any sequence of sink operations on handles the sink has handed out.
Next ==
    \/ \E template \in BOOLEAN :
          Call_create_element(TreeCreateAttrs, template) /\ Bounded(MaxNodes)'
    \/ Call_create_comment /\ Bounded(MaxNodes)'
    \/ Call_create_pi /\ Bounded(MaxNodes)'
    \/ \E parent \in Handles, child \in Children :
          Call_append(parent, child) /\ Bounded(MaxNodes)'
    \/ \E sibling \in Handles, child \in Children :
          Call_append_before_sibling(sibling, child) /\ Bounded(MaxNodes)'
    \/ \E element \in Handles, prev_element \in Handles, child \in Children :
          Call_append_based_on_parent_node(element, prev_element, child) /\ Bounded(MaxNodes)'
    \/ Call_append_doctype_to_document /\ Bounded(MaxNodes)'
    \/ \E target \in Handles : Call_get_template_contents(target)
    \/ \E target \in Handles : Call_add_attrs_if_missing(target, TreeAddAttrs)
    \/ \E target \in Handles : Call_remove_from_parent(target)
    \/ \E node \in Handles, new_parent \in Handles :
          Call_reparent_children(node, new_parent)

Spec == Init /\ [][Next]_vars

\* Any sequence of create_element and add_attrs_if_missing calls, with every
\* incoming attribute list.
NextAttrs ==
    \/ \E attrs \in AttrLists, template \in BOOLEAN :
          Call_create_element(attrs, template) /\ Bounded(MaxAttrNodes)'
    \/ \E target \in Handles, attrs \in AttrLists :
          Call_add_attrs_if_missing(target, attrs)

SpecAttrs == Init /\ [][NextAttrs]_vars

\* fn parse_error, as an action: it cannot fail.
Call_parse_error(msg) ==
    /\ Running
    /\ errors' = parse_error(errors, msg)
    /\ UNCHANGED <<arena, document, quirks_mode, status>>

Call_set_quirks_mode(mode) ==
    /\ Running
    /\ quirks_mode' = set_quirks_mode(mode)
    /\ UNCHANGED <<arena, document, errors, status>>

Call_get_document == Returns(get_document(arena, document))

Call_same_node(x, y) ==
    /\ Running
    /\ same_node(x, y) \in BOOLEAN
    /\ UNCHANGED vars

Call_elem_name(target) == Returns(elem_name(arena, target))

Call_is_mathml_annotation_xml_integration_point(target) ==
    Returns(is_mathml_annotation_xml_integration_point(arena, target))

\* fn finish: the sink is consumed and handed back as the output.
Call_finish ==
    /\ Running
    /\ status' = "finished"
    /\ UNCHANGED <<arena, document, errors, quirks_mode>>

\* The messages and quirks modes the tree builder passes, and the bounds of the
\* specification that lets the error log and the quirks mode vary.
Msgs == {"e1", "e2"}

QuirksModes == {"Quirks", "LimitedQuirks", "NoQuirks"}

MaxErrors == 2

MaxLogNodes == 3

\* Every operation of the sink, over a small arena.
NextLog ==
    \/ \E msg \in Msgs : Call_parse_error(msg) /\ Len(errors') <= MaxErrors
    \/ \E mode \in QuirksModes : Call_set_quirks_mode(mode)
    \/ Call_get_document
    \/ \E x \in Handles, y \in Handles : Call_same_node(x, y)
    \/ \E target \in Handles : Call_elem_name(target)
    \/ \E target \in Handles : Call_is_mathml_annotation_xml_integration_point(target)
    \/ Call_finish
    \/ \E template \in BOOLEAN :
          Call_create_element(TreeCreateAttrs, template) /\ Bounded(MaxLogNodes)'
    \/ Call_create_comment /\ Bounded(MaxLogNodes)'
    \/ Call_create_pi /\ Bounded(MaxLogNodes)'
    \/ \E parent \in Handles, child \in Children :
          Call_append(parent, child) /\ Bounded(MaxLogNodes)'
    \/ \E sibling \in Handles, child \in Children :
          Call_append_before_sibling(sibling, child) /\ Bounded(MaxLogNodes)'
    \/ \E element \in Handles, prev_element \in Handles, child \in Children :
          Call_append_based_on_parent_node(element, prev_element, child)
              /\ Bounded(MaxLogNodes)'
    \/ Call_append_doctype_to_document /\ Bounded(MaxLogNodes)'
    \/ \E target \in Handles : Call_get_template_contents(target)
    \/ \E target \in Handles : Call_add_attrs_if_missing(target, TreeAddAttrs)
    \/ \E target \in Handles : Call_remove_from_parent(target)
    \/ \E node \in Handles, new_parent \in Handles :
          Call_reparent_children(node, new_parent)

SpecLog == Init /\ [][NextLog]_vars

\* ------------------------------------------------------------ observers
\* The nodes from h along the next-sibling links, at most fuel of them.
RECURSIVE SiblingChain(_, _, _)
SiblingChain(a, h, fuel) ==
    IF h = None \/ fuel = 0 THEN <<>>
    ELSE <<h>> \o SiblingChain(a, a[h].next_sibling, fuel - 1)

\* The child list of p: from its first child along the next-sibling links.
ChildList(a, p) == SiblingChain(a, a[p].first_child, Len(a))

Range(seq) == {seq[i] : i \in DOMAIN seq}

Occurrences(seq, x) == Cardinality({i \in DOMAIN seq : seq[i] = x})

\* seq without the entries equal to x.
RECURSIVE Without(_, _)
Without(seq, x) ==
    IF seq = <<>> THEN <<>>
    ELSE (IF Head(seq) = x THEN <<>> ELSE <<Head(seq)>>) \o Without(Tail(seq), x)

\* seq with x put immediately before the first entry equal to s.
RECURSIVE PutBefore(_, _, _)
PutBefore(seq, s, x) ==
    IF seq = <<>> THEN <<>>
    ELSE IF Head(seq) = s THEN <<x>> \o seq
    ELSE <<Head(seq)>> \o PutBefore(Tail(seq), s, x)

\* The strict ancestors of h: the nodes on its parent chain.
RECURSIVE AncestorsUpTo(_, _, _)
AncestorsUpTo(a, h, fuel) ==
    IF a[h].parent = None \/ fuel = 0 THEN {}
    ELSE {a[h].parent} \cup AncestorsUpTo(a, a[h].parent, fuel - 1)

Ancestors(a, h) == AncestorsUpTo(a, h, Len(a))

\* The nodes reached from the nodes of S by following child links.
RECURSIVE ReachableUpTo(_, _, _)
ReachableUpTo(a, S, fuel) ==
    IF fuel = 0 THEN S
    ELSE ReachableUpTo(a, S \cup UNION {Range(ChildList(a, p)) : p \in S}, fuel - 1)

Reachable(a, root) == ReachableUpTo(a, {root}, Len(a))

\* The tree links of a node.
Links(n) == <<n.parent, n.first_child, n.last_child, n.previous_sibling, n.next_sibling>>

SameLinks(a, b) ==
    /\ Len(a) = Len(b)
    /\ \A h \in 1..Len(a) : Links(a[h]) = Links(b[h])

\* --------------------------------------------------------------- claims
\* C1: for every node N and every other node M that is not N and not inside
\* N's subtree, after reparent_children(N, M) the child list of M is M's former
\* child list followed by N's former child list in its order, and N has no
\* children.
C1_ReparentMovesAllChildren ==
    \A N \in Handles, M \in Handles :
        (M # N /\ N \notin Ancestors(arena, M)) =>
            LET r == reparent_children(arena, N, M)
            IN  /\ r.ok
                /\ ChildList(r.arena, M) = ChildList(arena, M) \o ChildList(arena, N)
                /\ ChildList(r.arena, N) = <<>>

\* C2: no two adjacent siblings are both Text nodes, in every state reached by
\* any sequence of sink operations.
C2_NoAdjacentText ==
    \A h \in 1..Len(arena) :
        (arena[h].kind = "Text" /\ arena[h].next_sibling # None) =>
            arena[arena[h].next_sibling].kind # "Text"

\* The links of arena a are mutually consistent: A has parent P exactly when A
\* appears, exactly once, in the chain from P's first child along the
\* next-sibling links to P's last child; previous and next are inverse of each
\* other; a node with no parent has no previous and no next sibling.
LinksConsistent(a) ==
    /\ \A P \in 1..Len(a) :
         LET cl == ChildList(a, P)
         IN  /\ \A A \in 1..Len(a) :
                  Occurrences(cl, A) = (IF a[A].parent = P THEN 1 ELSE 0)
             /\ a[P].last_child = (IF cl = <<>> THEN None ELSE cl[Len(cl)])
    /\ \A h \in 1..Len(a) :
         /\ a[h].next_sibling # None => a[a[h].next_sibling].previous_sibling = h
         /\ a[h].previous_sibling # None => a[a[h].previous_sibling].next_sibling = h
         /\ a[h].parent = None =>
                a[h].previous_sibling = None /\ a[h].next_sibling = None

\* C4: in every state reached by any sequence of sink operations the parent,
\* first/last-child and previous/next-sibling links are mutually consistent.
C4_LinksConsistent == LinksConsistent(arena)

\* C10: append_before_sibling(sibling, child), for a sibling that has no parent,
\* ends in an explicit failure for text and for node children, and leaves every
\* link and the number of nodes unchanged.
C10_NoParentFails ==
    \A sibling \in Handles, child \in Children :
        arena[sibling].parent = None =>
            LET r == append_before_sibling(arena, sibling, child)
            IN  /\ ~r.ok
                /\ SameLinks(r.arena, arena)

\* C7: the attribute list of every Element holds no two entries with the same
\* qualified name, in every state reached by create_element and
\* add_attrs_if_missing calls.
C7_AttrsUnique ==
    \A h \in 1..Len(arena) :
        \A i, j \in DOMAIN arena[h].attrs :
            arena[h].attrs[i].name = arena[h].attrs[j].name => i = j

\* C5: append(P, text t) when P's last child is a Text node with buffer b leaves
\* the number of nodes and every link unchanged and sets that buffer to b
\* followed by t; otherwise exactly one new Text node with buffer t is created
\* and becomes P's last child, after P's former children. A second text append
\* to P then merges into the same node: a run of text appends yields one Text
\* child holding the concatenation.
C5_AppendText ==
    \A P \in Handles, t \in Texts :
        LET lc == arena[P].last_child
            r == append(arena, P, AppendText(t))
            new == Len(arena) + 1
            merges == lc # None /\ arena[lc].kind = "Text"
            node == IF merges THEN lc ELSE new
        IN  /\ r.ok
            /\ merges =>
                  r.arena = [arena EXCEPT ![lc].contents = arena[lc].contents \o t]
            /\ ~merges =>
                  /\ Len(r.arena) = Len(arena) + 1
                  /\ \A h \in 1..Len(arena) : r.arena[h].kind = arena[h].kind
                                               /\ r.arena[h].contents = arena[h].contents
                  /\ r.arena[new].kind = "Text"
                  /\ r.arena[new].contents = t
                  /\ r.arena[new].parent = P
                  /\ ChildList(r.arena, P) = ChildList(arena, P) \o <<new>>
            /\ \A t2 \in Texts :
                  LET r2 == append(r.arena, P, AppendText(t2))
                  IN  /\ r2.ok
                      /\ Len(r2.arena) = Len(r.arena)
                      /\ ChildList(r2.arena, P) = ChildList(r.arena, P)
                      /\ r2.arena[node].contents = r.arena[node].contents \o t2

\* C5 witness: a parent whose last child is a Text node holding "a"; appending
\* "b" to the parent leaves the nodes as they are and the buffer at "ab".
C5_Witness ==
    \E P \in Handles :
        LET lc == arena[P].last_child
            r == append(arena, P, AppendText(<<"b">>))
        IN  /\ lc # None
            /\ arena[lc].kind = "Text"
            /\ arena[lc].contents = <<"a">>
            /\ Len(r.arena) = Len(arena)
            /\ r.arena[lc].contents = <<"a", "b">>

\* What C3 says of append_before_sibling(S, child): text with a Text node
\* immediately before S is merged into that node and no node is created; in
\* every other case the inserted node becomes a child of S's parent immediately
\* before S, and the parent's other children keep their order.
C3_Post(S, child) ==
    LET P == arena[S].parent
        prec == arena[S].previous_sibling
        r == append_before_sibling(arena, S, child)
        X == IF IsText(child) THEN Len(arena) + 1 ELSE child.node
    IN  IF IsText(child) /\ prec # None /\ arena[prec].kind = "Text"
        THEN /\ r.ok
             /\ r.arena = [arena EXCEPT ![prec].contents = arena[prec].contents \o child.text]
        ELSE /\ r.ok
             /\ Len(r.arena) = (IF IsText(child) THEN Len(arena) + 1 ELSE Len(arena))
             /\ IsText(child) => r.arena[X].kind = "Text" /\ r.arena[X].contents = child.text
             /\ r.arena[X].parent = P
             /\ r.arena[S].parent = P
             /\ ChildList(r.arena, P) = PutBefore(Without(ChildList(arena, P), X), S, X)

\* C3: for every sibling S that has a parent P, append_before_sibling(S, child)
\* with a text child and a Text node immediately before S merges the text into
\* that node and creates no node; otherwise, for text and for a node child
\* other than S and P, the inserted node ends up a child of P immediately
\* before S, and the other children of P keep their relative order.
C3_InsertBefore ==
    \A S \in Handles, child \in Children :
        (arena[S].parent # None /\ child.node \notin {S, arena[S].parent}) =>
            C3_Post(S, child)

\* C6: every handle resolves to the same node, of the same variant, in every
\* later state, and no operation removes a node from the arena.
C6_HandlesStable ==
    [][/\ Len(arena') >= Len(arena)
       /\ \A h \in 1..Len(arena) : arena'[h].kind = arena[h].kind]_vars

\* C6 witness: an attached node that remove_from_parent detaches: it is still
\* in the arena, of the same variant, with its children.
C6_Witness ==
    \E h \in Handles :
        LET r == remove_from_parent(arena, h)
        IN  /\ arena[h].parent # None
            /\ arena[h].first_child # None
            /\ r.ok
            /\ Len(r.arena) = Len(arena)
            /\ r.arena[h].parent = None
            /\ r.arena[h].kind = arena[h].kind
            /\ r.arena[h].first_child = arena[h].first_child

\* C8: add_attrs_if_missing(e, attrs) on an Element keeps every attribute e
\* had, at its position and with its value, and appends after them, in
\* incoming order, exactly the incoming attributes whose name e did not have
\* before the call; nothing else in the arena changes.
C8_AddAttrsIfMissing ==
    \A e \in Handles, attrs \in AttrLists :
        arena[e].kind = "Element" =>
            LET old == arena[e].attrs
                names == {old[i].name : i \in DOMAIN old}
                Missing(x) == x.name \notin names
                r == add_attrs_if_missing(arena, e, attrs)
            IN  /\ r.ok
                /\ r.arena = [arena EXCEPT ![e].attrs = old \o SelectSeq(attrs, Missing)]

\* C8 witness: an element holding class="b" that is offered class="a" and
\* id="a": class stays "b" and id="a" is appended.
C8_Witness ==
    \E e \in Handles :
        LET r == add_attrs_if_missing(arena, e,
                    <<[name |-> "class", value |-> "a"], [name |-> "id", value |-> "a"]>>)
        IN  /\ arena[e].kind = "Element"
            /\ arena[e].attrs = <<[name |-> "class", value |-> "b"]>>
            /\ r.arena[e].attrs = <<[name |-> "class", value |-> "b"],
                                    [name |-> "id", value |-> "a"]>>

\* The template contents recorded in the arena.
TemplateContents(a) ==
    {a[e].template_contents : e \in {h \in 1..Len(a) : a[h].template_contents # None}}

\* C9, as claimed: the template contents of an Element are, in every reachable
\* state, a Document-kind node that has no parent and is not reachable from
\* the root document by following child links.
C9_TemplateIsolated ==
    \A tc \in TemplateContents(arena) :
        /\ arena[tc].kind = "Document"
        /\ arena[tc].parent = None
        /\ tc \notin Reachable(arena, document)

\* The step passes tc as the node child of append or as the sibling of
\* append_before_sibling (append_based_on_parent_node is one of the two).
PassedAsChild(tc) ==
    \/ \E parent \in Handles : arena' = append(arena, parent, AppendNode(tc)).arena
    \/ \E child \in Children :
          arena' = append_before_sibling(arena, tc, child).arena

\* C9, amended: an Element has recorded template contents exactly when it was
\* created with the template flag; the recorded handle never changes, it is
\* what get_template_contents returns, and it names a Document-kind node that
\* is created without a parent, gets a parent only in a step that passes the
\* handle itself as the node child of append or as the sibling of
\* append_before_sibling, and while it has no parent is not reachable from the
\* root document by following child links.
C9_TemplateContents ==
    [][/\ \A h \in 1..Len(arena) :
            /\ arena'[h].template_contents = arena[h].template_contents
            /\ arena[h].template_contents # None =>
                  /\ arena[h].kind = "Element"
                  /\ get_template_contents(arena', h) =
                        Outcome(arena', TRUE, arena[h].template_contents)
       /\ \A attrs \in {TreeCreateAttrs}, template \in BOOLEAN :
            LET r == create_element(arena, attrs, template)
                tc == r.arena[r.ret].template_contents
            IN  /\ (tc # None) <=> template
                /\ template =>
                      /\ tc \notin 1..Len(arena)
                      /\ r.arena[tc].kind = "Document"
                      /\ r.arena[tc].parent = None
                /\ Len(r.arena) = Len(arena) + (IF template THEN 2 ELSE 1)
       /\ \A tc \in TemplateContents(arena) :
            /\ arena'[tc].kind = "Document"
            /\ (arena[tc].parent = None /\ arena'[tc].parent # None) => PassedAsChild(tc)
            /\ arena'[tc].parent = None => tc \notin Reachable(arena', document)]_vars

\* C9 witness: a template element attached under the root document whose
\* template contents hold a child, have no parent, are not reachable from the
\* root, and are what get_template_contents returns.
C9_Witness ==
    \E e \in Handles :
        LET tc == arena[e].template_contents
        IN  /\ tc # None
            /\ arena[e].parent = document
            /\ arena[tc].first_child # None
            /\ arena[tc].parent = None
            /\ tc \notin Reachable(arena, document)
            /\ get_template_contents(arena, e).ret = tc

\* C11: append_doctype_to_document, in every reachable state, succeeds, creates
\* exactly one new node, of kind Doctype, and makes it the last child of the
\* root document: the child list of the root is its former child list followed
\* by the new node. Of the nodes that existed, only the root (its first/last
\* child links) and the root's former last child (its next-sibling link)
\* change; every other node keeps all its links and its payload.
C11_AppendDoctype ==
    LET r == append_doctype_to_document(arena, document)
        new == Len(arena) + 1
        last == arena[document].last_child
    IN  /\ r.ok
        /\ Len(r.arena) = new
        /\ r.arena[new].kind = "Doctype"
        /\ r.arena[new].parent = document
        /\ r.arena[new].first_child = None
        /\ ChildList(r.arena, document) = ChildList(arena, document) \o <<new>>
        /\ r.arena[document] =
              [arena[document] EXCEPT !.last_child = new,
                                      !.first_child = IF @ = None THEN new ELSE @]
        /\ last # None => r.arena[last] = [arena[last] EXCEPT !.next_sibling = new]
        /\ \A h \in 1..Len(arena) :
              (h # document /\ h # last) => r.arena[h] = arena[h]

\* C11 witness: the root document has two children and a parent of its own,
\* and append_doctype_to_document puts the new Doctype node after them.
C11_Witness ==
    LET r == append_doctype_to_document(arena, document)
    IN  /\ Len(ChildList(arena, document)) = 2
        /\ arena[document].parent # None
        /\ ChildList(r.arena, document) = ChildList(arena, document) \o <<Len(arena) + 1>>

\* C12 as stated: every Doctype node has the root document as its parent, in
\* every state reached by any sequence of sink operations.
C12_DoctypeUnderRoot ==
    \A h \in 1..Len(arena) :
        arena[h].kind = "Doctype" => arena[h].parent = document

\* C12, amended: every Doctype node always has a parent; it is created as the
\* last child of the root document, and its parent changes only in a
\* reparent_children(node, new_parent) call in which it is the first child of
\* node, which makes new_parent its parent.
C12_DoctypeParent ==
    [][\A h \in 1..Len(arena') :
          arena'[h].kind = "Doctype" =>
              /\ arena'[h].parent # None
              /\ h > Len(arena) =>
                    /\ arena'[h].parent = document
                    /\ arena'[document].last_child = h
              /\ (h <= Len(arena) /\ arena'[h].parent # arena[h].parent) =>
                    /\ arena[arena[h].parent].first_child = h
                    /\ \E new_parent \in Handles :
                          /\ arena' = reparent_children(arena, arena[h].parent, new_parent).arena
                          /\ arena'[h].parent = new_parent]_vars

\* C12 witness: a Doctype node whose parent is an element, not the root.
C12_Witness ==
    \E h \in 1..Len(arena) :
        /\ arena[h].kind = "Doctype"
        /\ arena[h].parent # None
        /\ arena[h].parent # document
        /\ arena[arena[h].parent].kind = "Element"

\* C13: append_based_on_parent_node(element, prev_element, child) yields the
\* same outcome (resulting arena, success or failure) as
\* append_before_sibling(element, child) when element has a parent, and as
\* append(prev_element, child) when it has none, for every pair of handles and
\* every text or node child.
C13_BasedOnParentNode ==
    \A element \in Handles, prev_element \in Handles, child \in Children :
        LET r == append_based_on_parent_node(arena, element, prev_element, child)
        IN  /\ arena[element].parent # None =>
                  r = append_before_sibling(arena, element, child)
            /\ arena[element].parent = None =>
                  r = append(arena, prev_element, child)

\* C13 witness: one state holds an element with a parent, for which the call
\* inserts before it and not under prev_element, and an element without a
\* parent, for which the call appends under prev_element and does not insert
\* before it.
C13_Witness ==
    /\ \E element \in Handles, prev_element \in Handles, child \in Children :
          LET r == append_based_on_parent_node(arena, element, prev_element, child)
          IN  /\ arena[element].parent # None
              /\ r.ok
              /\ r = append_before_sibling(arena, element, child)
              /\ r # append(arena, prev_element, child)
    /\ \E element \in Handles, prev_element \in Handles, child \in Children :
          LET r == append_based_on_parent_node(arena, element, prev_element, child)
          IN  /\ arena[element].parent = None
              /\ arena[element].kind = "Element"
              /\ r.ok
              /\ r = append(arena, prev_element, child)
              /\ r # append_before_sibling(arena, element, child)

\* C14 as stated: after remove_from_parent(N), N has no parent, no previous and
\* no next sibling; N's former neighbours are linked to each other and the
\* rest of the former parent's child list keeps its order; N's own child list
\* and every node inside N's subtree are unchanged; N and its descendants are
\* not reachable from the root document (for an N that is not the root and
\* does not hold it); when N already has no parent the call changes nothing.
C14_RemoveFromParent ==
    \A N \in Handles :
        LET r == remove_from_parent(arena, N)
            P == arena[N].parent
            prev == arena[N].previous_sibling
            next == arena[N].next_sibling
        IN  /\ r.ok
            /\ r.arena[N] = [arena[N] EXCEPT !.parent = None,
                                             !.previous_sibling = None,
                                             !.next_sibling = None]
            /\ prev # None => r.arena[prev].next_sibling = next
            /\ next # None => r.arena[next].previous_sibling = prev
            /\ P # None => ChildList(r.arena, P) = Without(ChildList(arena, P), N)
            /\ ChildList(r.arena, N) = ChildList(arena, N)
            /\ \A h \in Reachable(arena, N) \ {N} : r.arena[h] = arena[h]
            /\ document \notin Reachable(arena, N) =>
                  Reachable(r.arena, N) \cap Reachable(r.arena, document) = {}
            /\ P = None => r.arena = arena

\* C15: for a parent P and an existing node handle C other than P, wherever C
\* is (no parent, under another parent, already under P, an ancestor of P),
\* append(P, node C) succeeds and afterwards C is the last child of P, appears
\* once in P's child list and in no other child list, and the other children
\* of P and of C's former parent keep their relative order.
C15_AppendExistingNode ==
    \A P \in Handles, C \in Handles :
        C # P =>
            LET r == append(arena, P, AppendNode(C))
                F == arena[C].parent
            IN  /\ r.ok
                /\ Len(r.arena) = Len(arena)
                /\ r.arena[C].parent = P
                /\ r.arena[P].last_child = C
                /\ r.arena[C].next_sibling = None
                /\ ChildList(r.arena, P) = Without(ChildList(arena, P), C) \o <<C>>
                /\ Occurrences(ChildList(r.arena, P), C) = 1
                /\ \A Q \in 1..Len(arena) :
                      Q # P => C \notin Range(ChildList(r.arena, Q))
                /\ (F # None /\ F # P) =>
                      ChildList(r.arena, F) = Without(ChildList(arena, F), C)

\* C15 witness: the root holds C and then P, and P holds a child of its own:
\* append(P, node C) moves C from the root's list to the end of P's, and
\* append(P, node root) makes an ancestor of P the last child of P.
C15_Witness ==
    \E P \in Handles, C \in Handles :
        LET r == append(arena, P, AppendNode(C))
            q == append(arena, P, AppendNode(document))
        IN  /\ C # P /\ C # document /\ P # document
            /\ ChildList(arena, document) = <<C, P>>
            /\ Len(ChildList(arena, P)) = 1
            /\ ChildList(r.arena, P) = ChildList(arena, P) \o <<C>>
            /\ ChildList(r.arena, document) = <<P>>
            /\ document \in Ancestors(arena, P)
            /\ q.ok
            /\ ChildList(q.arena, P) = ChildList(arena, P) \o <<document>>

\* An outcome that is an explicit failure and leaves the arena as it was.
FailsUnchanged(r) == ~r.ok /\ r.arena = arena

\* A step that ends the program in a failure and changes nothing else.
PanicStep ==
    /\ status' = "panicked"
    /\ arena' = arena
    /\ errors' = errors
    /\ quirks_mode' = quirks_mode

\* C16: elem_name, is_mathml_annotation_xml_integration_point and
\* add_attrs_if_missing on a handle whose node is not an Element, and
\* get_template_contents on a handle whose node is not an Element or is an
\* Element without template contents, each end in an explicit failure and
\* leave the arena, the error log and the quirks mode exactly as they were.
C16_FailuresChangeNothing ==
    [][\A target \in Handles :
          /\ arena[target].kind # "Element" =>
                /\ FailsUnchanged(elem_name(arena, target))
                /\ FailsUnchanged(is_mathml_annotation_xml_integration_point(arena, target))
                /\ \A attrs \in AttrLists :
                      FailsUnchanged(add_attrs_if_missing(arena, target, attrs))
                /\ Call_elem_name(target) => PanicStep
                /\ Call_is_mathml_annotation_xml_integration_point(target) => PanicStep
                /\ Call_add_attrs_if_missing(target, TreeAddAttrs) => PanicStep
          /\ (arena[target].kind # "Element" \/ arena[target].template_contents = None) =>
                /\ FailsUnchanged(get_template_contents(arena, target))
                /\ Call_get_template_contents(target) => PanicStep]_vars

\* C16 witness: the program has ended in a failure with a non-empty error log
\* and a quirks mode that was set, in an arena that holds a Comment node and an
\* Element without template contents, on which the four operations fail.
C16_Witness ==
    /\ status = "panicked"
    /\ errors # <<>>
    /\ quirks_mode = "Quirks"
    /\ \E c \in Handles, e \in Handles :
          /\ arena[c].kind = "Comment"
          /\ arena[e].kind = "Element" /\ arena[e].template_contents = None
          /\ elem_name(arena, c) = Outcome(arena, FALSE, None)
          /\ is_mathml_annotation_xml_integration_point(arena, c) = Outcome(arena, FALSE, None)
          /\ add_attrs_if_missing(arena, c, TreeAddAttrs) = Outcome(arena, FALSE, None)
          /\ get_template_contents(arena, e) = Outcome(arena, FALSE, None)

\* C17: the error log is append-only. parse_error(m) always succeeds, makes
\* the log its former entries followed by m and changes neither the arena nor
\* the quirks mode; a step of any other sink operation leaves the log as it
\* was; finish hands the log back as it stands, so that it is the sequence of
\* the parse_error messages in call order.
C17_ErrorLogAppendOnly ==
    [][/\ \A msg \in Msgs :
            /\ parse_error(errors, msg) = errors \o <<msg>>
            /\ Call_parse_error(msg) =>
                  /\ errors' = errors \o <<msg>>
                  /\ SubSeq(errors', 1, Len(errors)) = errors
                  /\ arena' = arena
                  /\ quirks_mode' = quirks_mode
                  /\ status' = "running"
       /\ errors' # errors => \E msg \in Msgs : Call_parse_error(msg)
       /\ Call_finish => errors' = errors /\ status' = "finished"
       /\ status = "finished" => errors' = errors]_vars

\* C17 witness: two different messages were logged, with arena operations
\* done, and finish has returned the log with the two in call order.
C17_Witness ==
    /\ status = "finished"
    /\ errors = <<"e2", "e1">>
    /\ Len(arena) > 1
    /\ arena[document].first_child # None

\* A node without parent, children and siblings.
Unlinked(n) == Links(n) = <<None, None, None, None, None>>

\* The outcome r of a create operation on the arena: it succeeds, its handle
\* is none of the existing ones and names a node of the given kind without
\* parent, children and siblings, extra further nodes are allocated, and every
\* node that existed is equal to what it was.
CreatesFresh(r, kind, extra) ==
    /\ r.ok
    /\ r.ret \notin 1..Len(arena)
    /\ r.ret \in 1..Len(r.arena)
    /\ Len(r.arena) = Len(arena) + 1 + extra
    /\ SubSeq(r.arena, 1, Len(arena)) = arena
    /\ r.arena[r.ret].kind = kind
    /\ Unlinked(r.arena[r.ret])

\* C18: create_element, create_comment and create_pi each return a handle
\* different from every existing one, whose node has no parent, no children
\* and no siblings; the links and payloads of all nodes that existed are
\* unchanged. With the template flag exactly one further node is allocated, an
\* unattached Document node that is the element's template contents; without
\* it no further node is allocated.
C18_CreateFresh ==
    /\ CreatesFresh(create_comment(arena), "Comment", 0)
    /\ CreatesFresh(create_pi(arena), "ProcessingInstruction", 0)
    /\ LET r == create_element(arena, TreeCreateAttrs, FALSE)
       IN  /\ CreatesFresh(r, "Element", 0)
           /\ r.arena[r.ret].template_contents = None
    /\ LET r == create_element(arena, TreeCreateAttrs, TRUE)
           tc == r.arena[r.ret].template_contents
       IN  /\ CreatesFresh(r, "Element", 1)
           /\ tc \in (1..Len(r.arena)) \ (1..Len(arena))
           /\ tc # r.ret
           /\ r.arena[tc].kind = "Document"
           /\ Unlinked(r.arena[tc])

\* C18 witness: the arena is what create_element with the template flag made
\* of an arena whose root has a child, and what create_comment made of an
\* arena before that: the newest nodes are unattached, the older ones linked.
C18_Witness ==
    LET n == Len(arena)
    IN  /\ n = 4
        /\ arena[document].first_child = 2
        /\ arena[2].kind = "Comment"
        /\ create_comment(SubSeq(arena, 1, 1)).ret = 2
        /\ create_element(SubSeq(arena, 1, 2), TreeCreateAttrs, TRUE)
              = Outcome(arena, TRUE, 4)
        /\ arena[4].template_contents = 3
        /\ Unlinked(arena[3]) /\ Unlinked(arena[4])

\* C19: under any sequence of append, append_before_sibling,
\* append_based_on_parent_node and reparent_children calls on valid handles the
\* parent links form a forest: no node is its own ancestor and the root
\* document never has a parent.
C19_Forest ==
    /\ arena[document].parent = None
    /\ \A h \in 1..Len(arena) : h \notin Ancestors(arena, h)

\* The number of passes the loop of reparent_children makes from next_child,
\* counting the pass in which the append panics; more than fuel when the loop
\* has not ended after fuel passes.
RECURSIVE LoopPasses(_, _, _, _)
LoopPasses(a, next_child, new_parent, fuel) ==
    IF next_child = None THEN 0
    ELSE IF fuel = 0 THEN 1
    ELSE LET s == reparent_step(a, next_child, new_parent)
         IN  IF ~s.ok THEN 1
             ELSE 1 + LoopPasses(s.arena, s.next_child, new_parent, fuel - 1)

\* C20 as stated: reparent_children(node, new_parent) terminates in every
\* reachable state and for every pair of valid handles, node = new_parent and
\* a new_parent inside node's subtree included: the loop over node's children
\* always reaches a child without a next one after finitely many passes, so
\* the call returns.
C20_LoopReachesEnd ==
    \A node \in Handles, new_parent \in Handles :
        /\ LoopPasses(arena, arena[node].first_child, new_parent, Len(arena) + 1)
              <= Len(arena)
        /\ reparent_children(arena, node, new_parent).ok

\* C20, amended: reparent_children(node, new_parent) ends in every reachable
\* state and for every pair of valid handles, after at most one pass of its
\* loop. It returns, having reached a child without a next one (or found no
\* child), except when new_parent is node's first child: then the append of
\* the first pass panics, after that child was detached from node, and the
\* call ends in that failure.
C20_ReparentTerminates ==
    \A node \in Handles, new_parent \in Handles :
        LET first == arena[node].first_child
            r == reparent_children(arena, node, new_parent)
        IN  /\ LoopPasses(arena, first, new_parent, Len(arena) + 1) <= 1
            /\ r.ok <=> new_parent # first
            /\ (first # None /\ r.ok) => r.arena[first].next_sibling = None
            /\ ~r.ok => r.arena = NodeId_detach(arena, first)

\* C20 witness: the root has two children, of which the second has a child:
\* reparent_children(root, root) and reparent_children(root, second child)
\* return after one pass, and reparent_children(root, first child) ends in
\* the panic of its first pass.
C20_Witness ==
    \E A \in Handles, B \in Handles :
        /\ ChildList(arena, document) = <<A, B>>
        /\ arena[B].first_child # None
        /\ LoopPasses(arena, A, document, Len(arena) + 1) = 1
        /\ reparent_children(arena, document, document).ok
        /\ ChildList(reparent_children(arena, document, document).arena, document) = <<B, A>>
        /\ LoopPasses(arena, A, B, Len(arena) + 1) = 1
        /\ reparent_children(arena, document, B).ok
        /\ LoopPasses(arena, A, A, Len(arena) + 1) = 1
        /\ ~reparent_children(arena, document, A).ok

====
